---- MODULE Spec2Model ----
(***************************************************************************)
(* A model of app.py, the TF-IDF course recommender: text normalisation    *)
(* (clean_text), scoring and ranking (recommend_courses, final_recommend,  *)
(* handle_cold_start), resource loading (load_resources) and the two-step  *)
(* Streamlit session flow (main and the display_* sections).               *)
(*                                                                         *)
(* Texts are sequences of characters.  Scores are fixed-point integers:    *)
(* a similarity s stands for s / SimScale, a weight w for w / 10 (0.7 is   *)
(* 7), so a composite score c stands for c / (10 * SimScale).              *)
(***************************************************************************)
EXTENDS Integers, Sequences, FiniteSets, TLC

VARIABLES
    n_pc, n_text, n_once, n_twice,          \* calls of clean_text
    pc, table, args, result, error,         \* calls of the scoring functions
    files, cache, session, widget_text,     \* the Streamlit session
    event, outcome

vars == << n_pc, n_text, n_once, n_twice,
           pc, table, args, result, error,
           files, cache, session, widget_text, event, outcome >>

normVars == << n_pc, n_text, n_once, n_twice >>
scoreVars == << pc, table, args, result, error >>
sessionVars == << files, cache, session, widget_text, event, outcome >>

----------------------------------------------------------------------------
(* Bounds of the model *)

MaxTextLen == 3
MaxRows == 3
MaxRating == 5
SimScale == 10

(* Program constants *)

DefaultSimilarityWeight == 7
DefaultRatingWeight == 3
DefaultTopN == 5

----------------------------------------------------------------------------
(* Characters.  "zh" stands for one CJK ideograph (u4e00-u9fa5), "A"       *)
(* for an upper-case Latin letter, "1" for any character outside the       *)
(* allow-list (digit, punctuation, symbol), " " for a whitespace character. *)

LowerLetters == {"a", "b"}
UpperLetters == {"A"}
HanChars == {"zh"}
Whitespace == {" "}
OtherChars == {"1"}
Chars == LowerLetters \cup UpperLetters \cup HanChars \cup Whitespace \cup OtherChars

RECURSIVE TextsOfLen(_)
TextsOfLen(n) ==
    IF n = 0 THEN {<<>>}
    ELSE {Append(t, c) : t \in TextsOfLen(n - 1), c \in Chars}

Texts == UNION {TextsOfLen(n) : n \in 0..MaxTextLen}

(* The lines of stopwords.txt after line.strip(): strip() removes leading  *)
(* and trailing whitespace, so no entry is a whitespace string.            *)
Stopwords == {<<"b">>}

(* re.sub(r'[^u4e00-u9fa5a-zA-Z\s]', '', str(text)): characters outside   *)
(* the allow-list are removed, not replaced.                                *)
StripDisallowed(t) ==
    LET Allowed(c) == c \in LowerLetters \cup UpperLetters \cup HanChars \cup Whitespace
    IN SelectSeq(t, Allowed)

LowerChar(c) == IF c = "A" THEN "a" ELSE c

(* text.lower() *)
Lower(t) == [i \in 1..Len(t) |-> LowerChar(t[i])]

RECURSIVE LetterPrefixLen(_)
LetterPrefixLen(t) ==
    IF t = <<>> \/ Head(t) \notin LowerLetters \cup UpperLetters THEN 0
    ELSE 1 + LetterPrefixLen(Tail(t))

(* jieba.lcut(text): every character of the text is in exactly one token.  *)
(* A maximal run of Latin letters is one token, every whitespace character *)
(* is a token of its own (jieba yields what its skip pattern matches), and *)
(* an ideograph the dictionary joins with nothing is a token of its own.   *)
RECURSIVE Lcut(_)
Lcut(t) ==
    IF t = <<>> THEN <<>>
    ELSE IF Head(t) \in LowerLetters \cup UpperLetters
         THEN LET k == LetterPrefixLen(t)
              IN << SubSeq(t, 1, k) >> \o Lcut(SubSeq(t, k + 1, Len(t)))
         ELSE << << Head(t) >> >> \o Lcut(Tail(t))

(* ' '.join(words) *)
RECURSIVE Join(_)
Join(words) ==
    IF words = <<>> THEN <<>>
    ELSE IF Len(words) = 1 THEN Head(words)
    ELSE Head(words) \o <<" ">> \o Join(Tail(words))

NotStopword(word) == word \notin Stopwords

(* [word for word in words if word not in stopwords] *)
FilterStopwords(words) == SelectSeq(words, NotStopword)

clean_text(text) == Join(FilterStopwords(Lcut(Lower(StripDisallowed(text)))))

----------------------------------------------------------------------------
(* Calls of clean_text on a text and on its own output *)

NormIdle == n_pc = "in" /\ n_once = <<>> /\ n_twice = <<>>
ScoreIdle == pc = "idle" /\ args = [fn |-> "none"] /\ result = <<>> /\ error = "none"

CallCleanText ==
    /\ n_pc = "in"
    /\ n_once' = clean_text(n_text)
    /\ n_pc' = "once"
    /\ UNCHANGED << n_text, n_twice, scoreVars, sessionVars >>

CallCleanTextAgain ==
    /\ n_pc = "once"
    /\ n_twice' = clean_text(n_once)
    /\ n_pc' = "twice"
    /\ UNCHANGED << n_text, n_once, scoreVars, sessionVars >>

----------------------------------------------------------------------------
(* The fitted TF-IDF model (tfidf_model.pkl): its vocabulary and the       *)
(* inverse-document-frequency weight of each term.                         *)

Vocabulary == {<<"a">>, <<"a", "b">>}
Idf(term) == IF term = <<"a">> THEN 1 ELSE 2

RECURSIVE WordPrefixLen(_)
WordPrefixLen(t) ==
    IF t = <<>> \/ Head(t) \in Whitespace THEN 0
    ELSE 1 + WordPrefixLen(Tail(t))

(* The analyzer of the vectorizer: the words of a text are its maximal     *)
(* runs of non-whitespace characters.                                      *)
RECURSIVE Words(_)
Words(t) ==
    IF t = <<>> THEN <<>>
    ELSE IF Head(t) \in Whitespace THEN Words(Tail(t))
    ELSE LET k == WordPrefixLen(t)
         IN << SubSeq(t, 1, k) >> \o Words(SubSeq(t, k + 1, Len(t)))

Count(words, term) == Cardinality({i \in 1..Len(words) : words[i] = term})

(* tfidf.transform([text]): term frequency times idf; a word that is not   *)
(* in the vocabulary contributes nothing.                                  *)
Transform(text) == [term \in Vocabulary |-> Count(Words(text), term) * Idf(term)]

RECURSIVE SumOver(_, _)
SumOver(f, S) ==
    IF S = {} THEN 0
    ELSE LET x == CHOOSE y \in S : TRUE IN f[x] + SumOver(f, S \ {x})

Dot(u, v) == SumOver([term \in Vocabulary |-> u[term] * v[term]], Vocabulary)

(* cosine_similarity(u, v) for one pair of rows, rounded down to a         *)
(* multiple of 1 / SimScale; 0 when either vector has zero norm.           *)
CosineSimilarity(u, v) ==
    LET d == Dot(u, v)
        nn == Dot(u, u) * Dot(v, v)
    IN IF nn = 0 THEN 0
       ELSE CHOOSE s \in 0..SimScale :
                /\ s * s * nn <= SimScale * SimScale * d * d
                /\ (s + 1) * (s + 1) * nn > SimScale * SimScale * d * d

----------------------------------------------------------------------------
(* Tables (pandas DataFrames): a set of column names and a sequence of     *)
(* rows, each row a function from the column names to cell values.  The    *)
(* position of a row in the table it came from is its index label.         *)

(* A missing cell (NaN): a value no rating takes. *)
NaN == -1

CourseA == <<"a">>
CourseB == <<"a", "b">>
Teacher == <<"zh">>

Reviews == {<<"a">>, <<"a", "b">>}
Ratings == {NaN, MaxRating}

CatalogCols == {"course_name", "teacher_name", "cleaned_review", "avg_rating"}

CatalogPool ==
    {[course_name |-> CourseA, teacher_name |-> Teacher,
      cleaned_review |-> r, avg_rating |-> g] : r \in Reviews, g \in Ratings}

(* New entries: course name and teacher only, or with a rating column too. *)
NewEntryPool ==
    {[course_name |-> c, teacher_name |-> Teacher] : c \in {CourseA, CourseB}}
NewEntryRatedPool ==
    {[course_name |-> c, teacher_name |-> Teacher, avg_rating |-> MaxRating] :
        c \in {CourseA, CourseB}}

RECURSIVE SeqsOfLen(_, _)
SeqsOfLen(S, n) ==
    IF n = 0 THEN {<<>>}
    ELSE {Append(s, x) : s \in SeqsOfLen(S, n - 1), x \in S}

SeqsUpTo(S, n) == UNION {SeqsOfLen(S, k) : k \in 0..n}

TablesOver(cols, pool) == {[cols |-> cols, rows |-> r] : r \in SeqsUpTo(pool, MaxRows)}

Catalogs == TablesOver(CatalogCols, CatalogPool)
NewTables ==
    TablesOver({"course_name", "teacher_name"}, NewEntryPool)
    \cup TablesOver({"course_name", "teacher_name", "avg_rating"}, NewEntryRatedPool)

HasCol(tbl, c) == c \in tbl.cols

(* tfidf.transform(course_teacher_tfidf['cleaned_review']): one vector per *)
(* row of the table, aligned by row index.                                 *)
TfidfMatrix(tbl) ==
    [i \in 1..Len(tbl.rows) |-> Transform(tbl.rows[i]["cleaned_review"])]

----------------------------------------------------------------------------
(* Scoring *)

Min(a, b) == IF a < b THEN a ELSE b
Max(a, b) == IF a > b THEN a ELSE b

Raised(e) == [kind |-> "raised", rows |-> <<>>, error |-> e]
Returned(rows) == [kind |-> "returned", rows |-> rows, error |-> "none"]

FillNaMissing(v) == v

(* Series.fillna(0) on one cell *)
FillNa(v) == IF v = NaN THEN 0 ELSE v

(* similarity_weight * similarity + rating_weight * avg_rating, in units   *)
(* of 1 / (10 * SimScale): the rating enters as it is stored.              *)
CompositeScore(ws, sim, wr, rating) == ws * sim + wr * rating * SimScale

(* DataFrame.head(n): the first n rows; for a negative n, all rows but the *)
(* last -n.                                                                *)
DfHead(rows, n) ==
    IF n >= 0 THEN SubSeq(rows, 1, Min(n, Len(rows)))
    ELSE SubSeq(rows, 1, Max(Len(rows) + n, 0))

(* DataFrame.sort_values(by='composite_score', ascending=False) with the   *)
(* default kind='quicksort', which is not a stable sort: every ordering of *)
(* the rows with non-increasing scores is a possible outcome.              *)
SortValues(rows) ==
    LET n == Len(rows)
        Orders == {f \in [1..n -> 1..n] :
                      /\ \A i, j \in 1..n : i # j => f[i] # f[j]
                      /\ \A i \in 1..n : i < n =>
                             rows[f[i]].composite_score >= rows[f[i + 1]].composite_score}
    IN {[i \in 1..n |-> rows[f[i]]] : f \in Orders}

(* recommend_courses: the set of its possible outcomes.  The table is      *)
(* copied (temp_df) before any column is written.                          *)
recommend_courses(keywords, tbl, tfidf_matrix, top_n, ws, wr, stopwords_file) ==
    IF stopwords_file # "ok" THEN {Raised("OSError")}
    ELSE IF Len(tfidf_matrix) = 0 THEN {Raised("ValueError")}
    ELSE IF ~HasCol(tbl, "avg_rating") THEN {Raised("KeyError")}
    ELSE
        LET keywords_tfidf == Transform(clean_text(keywords))
            scored ==
                [i \in 1..Len(tbl.rows) |->
                    [idx |-> i,
                     course_name |-> tbl.rows[i]["course_name"],
                     teacher_name |-> tbl.rows[i]["teacher_name"],
                     composite_score |->
                         CompositeScore(ws, CosineSimilarity(keywords_tfidf, tfidf_matrix[i]),
                                        wr, FillNa(tbl.rows[i]["avg_rating"]))]]
        IN {Returned(DfHead(sorted, top_n)) : sorted \in SortValues(scored)}

(* final_recommend: recommend_courses with the default weights *)
final_recommend(keywords, tbl, tfidf_matrix, top_n, stopwords_file) ==
    recommend_courses(keywords, tbl, tfidf_matrix, top_n,
                      DefaultSimilarityWeight, DefaultRatingWeight, stopwords_file)

ColdStartRatingFromRow(row) ==
    IF "avg_rating" \in DOMAIN row THEN FillNa(row["avg_rating"]) ELSE 0

(* cold_start_results['avg_rating'] = 0 *)
ColdStartRating(row) == 0

(* The table handle_cold_start leaves behind: it writes its two working    *)
(* columns into the table it was given.                                    *)
ColdStartTable(tbl, stopwords_file) ==
    LET alt(i) == tbl.rows[i]["course_name"] \o <<" ">> \o tbl.rows[i]["teacher_name"]
    IN IF stopwords_file # "ok"
       THEN [cols |-> tbl.cols \cup {"alt_text"},
             rows |-> [i \in 1..Len(tbl.rows) |-> ("alt_text" :> alt(i)) @@ tbl.rows[i]]]
       ELSE [cols |-> tbl.cols \cup {"alt_text", "cleaned_alt_text"},
             rows |-> [i \in 1..Len(tbl.rows) |->
                          ("alt_text" :> alt(i)) @@
                          ("cleaned_alt_text" :> clean_text(alt(i))) @@ tbl.rows[i]]]

(* handle_cold_start: its outcome, given the table as it has written it *)
handle_cold_start(tbl, keywords_tfidf, ws, wr, stopwords_file) ==
    IF stopwords_file # "ok" THEN Raised("OSError")
    ELSE IF Len(tbl.rows) = 0 THEN Raised("ValueError")
    ELSE
        LET new == ColdStartTable(tbl, stopwords_file)
            sim(i) == CosineSimilarity(keywords_tfidf,
                                       Transform(new.rows[i]["cleaned_alt_text"]))
        IN Returned([i \in 1..Len(tbl.rows) |->
                        [idx |-> i,
                         course_name |-> tbl.rows[i]["course_name"],
                         teacher_name |-> tbl.rows[i]["teacher_name"],
                         similarity |-> sim(i),
                         avg_rating |-> ColdStartRating(tbl.rows[i]),
                         composite_score |->
                             CompositeScore(ws, sim(i), wr, ColdStartRating(tbl.rows[i]))]])

----------------------------------------------------------------------------
(* Calls of the scoring functions by a caller that holds a table *)

ScoreKeywords == {<<>>, <<"a">>, <<"A", " ", "a", "b">>}
(* Values of top_n a caller passes: negative, zero, fewer than the rows,   *)
(* and the default.                                                        *)
TopNs == {-1, 0, 1, 2, DefaultTopN}
Weights == {<<DefaultSimilarityWeight, DefaultRatingWeight>>, <<5, 5>>}

Finish(o) ==
    /\ pc' = o.kind
    /\ result' = o.rows
    /\ error' = o.error

CallRecommendCourses ==
    /\ pc = "idle"
    /\ HasCol(table, "cleaned_review")
    /\ \E keywords \in ScoreKeywords, top_n \in TopNs, w \in Weights :
         /\ args' = [fn |-> "recommend_courses", keywords |-> keywords,
                     top_n |-> top_n, ws |-> w[1], wr |-> w[2]]
         /\ \E o \in recommend_courses(keywords, table, TfidfMatrix(table),
                                        top_n, w[1], w[2], files.stopwords) : Finish(o)
    /\ UNCHANGED << table, normVars, sessionVars >>

CallFinalRecommend ==
    /\ pc = "idle"
    /\ HasCol(table, "cleaned_review")
    /\ \E keywords \in ScoreKeywords, top_n \in TopNs :
         /\ args' = [fn |-> "final_recommend", keywords |-> keywords, top_n |-> top_n,
                     ws |-> DefaultSimilarityWeight, wr |-> DefaultRatingWeight]
         /\ \E o \in final_recommend(keywords, table, TfidfMatrix(table),
                                      top_n, files.stopwords) : Finish(o)
    /\ UNCHANGED << table, normVars, sessionVars >>

CallHandleColdStart ==
    /\ pc = "idle"
    /\ \E keywords \in ScoreKeywords, w \in Weights :
         /\ args' = [fn |-> "handle_cold_start", keywords |-> keywords,
                     ws |-> w[1], wr |-> w[2]]
         /\ Finish(handle_cold_start(table, Transform(clean_text(keywords)),
                                     w[1], w[2], files.stopwords))
    /\ table' = ColdStartTable(table, files.stopwords)
    /\ UNCHANGED << normVars, sessionVars >>

(* The caller drops the result and is ready for another call *)
Discard ==
    /\ pc # "idle"
    /\ pc' = "idle"
    /\ args' = [fn |-> "none"]
    /\ result' = <<>>
    /\ error' = "none"
    /\ UNCHANGED << table, normVars, sessionVars >>

----------------------------------------------------------------------------
(* Resources on disk and the cached result of load_resources *)

EmptyTable == [cols |-> {}, rows |-> <<>>]

DropCol(tbl, c) ==
    [cols |-> tbl.cols \ {c},
     rows |-> [i \in 1..Len(tbl.rows) |->
                  [k \in (DOMAIN tbl.rows[i]) \ {c} |-> tbl.rows[i][k]]]]

FileStates ==
    [vocabulary : {"ok", "unreadable"},
     corpus : {"ok", "unreadable", "no_rating"},
     stopwords : {"ok", "unreadable"},
     catalog : Catalogs]

NoFiles == [vocabulary |-> "ok", corpus |-> "ok", stopwords |-> "ok", catalog |-> EmptyTable]

Unloaded == [state |-> "unset", catalog |-> EmptyTable, matrix |-> <<>>]
LoadFailed == [state |-> "failed", catalog |-> EmptyTable, matrix |-> <<>>]

(* The table read from course_teacher_tfidf.pkl; a malformed one lacks the *)
(* avg_rating column.                                                      *)
StoredTable(f) == IF f.corpus = "no_rating" THEN DropCol(f.catalog, "avg_rating") ELSE f.catalog

load_resources_uncaught(f) ==
    IF Len(f.catalog.rows) > 0
    THEN [state |-> "loaded", catalog |-> StoredTable(f),
          matrix |-> TfidfMatrix(StoredTable(f))]
    ELSE LoadFailed

(* load_resources: any exception of joblib.load, read_pickle or transform  *)
(* (which refuses a table of no rows) is caught and (None, None, None)     *)
(* returned; st.cache_resource keeps whichever value was returned.         *)
load_resources(f) ==
    IF f.vocabulary = "ok" /\ f.corpus # "unreadable" /\ Len(f.catalog.rows) > 0
    THEN [state |-> "loaded", catalog |-> StoredTable(f),
          matrix |-> TfidfMatrix(StoredTable(f))]
    ELSE LoadFailed

(* if tfidf and course_teacher_tfidf is not None and tfidf_matrix is not None *)
ResourcesLoaded(c) == c.state = "loaded"

----------------------------------------------------------------------------
(* The session *)

NoSession ==
    [app_initialized |-> FALSE, user_keywords |-> <<>>, new_courses |-> <<>>,
     recommendations |-> <<>>, current_step |-> 0]

init_session_state(s) ==
    IF s.app_initialized THEN s
    ELSE [app_initialized |-> TRUE, user_keywords |-> <<>>, new_courses |-> <<>>,
          recommendations |-> <<>>, current_step |-> 1]

RunEnd(s, w, c, o, r) ==
    [session |-> s, widget_text |-> w, cache |-> c, outcome |-> o, rerun |-> r]

(* The restart button's branch of main *)
Restart(s) ==
    [s EXCEPT !.current_step = 1, !.user_keywords = <<>>,
              !.new_courses = <<>>, !.recommendations = <<>>]

(* display_input_section followed by the rest of main, on the press `trig` *)
InputSection(s, w, c, trig) ==
    LET s1 == [s EXCEPT !.user_keywords = w]
    IN IF trig = "submit" /\ s1.user_keywords # <<>>
       THEN RunEnd([s1 EXCEPT !.current_step = 2], w, c, "input_page", TRUE)
       ELSE IF trig = "restart"
            THEN RunEnd(Restart(s1), w, c, "input_page", TRUE)
            ELSE RunEnd(s1, w, c,
                        IF trig = "submit" THEN "warning" ELSE "input_page", FALSE)

(* display_recommendation_section followed by the rest of main.  The text  *)
(* input is not drawn in this run, so its widget state is dropped when the *)
(* run ends, unless an exception stops the run.                            *)
RecommendationSection(s, w, c, trig, f) ==
    {IF o.kind = "raised"
     THEN RunEnd(s, w, c, "exception", FALSE)
     ELSE LET s1 == [s EXCEPT !.recommendations = o.rows]
              shown == IF o.rows = <<>> THEN "no_match" ELSE "results"
          IN IF trig = "restart"
             THEN RunEnd(Restart(s1), <<>>, c, shown, TRUE)
             ELSE RunEnd(s1, <<>>, c, shown, FALSE)
     : o \in final_recommend(s.user_keywords, c.catalog, c.matrix,
                              DefaultTopN, f.stopwords)}

(* One run of main, from its first line to the end of the script or to the *)
(* exception, early return or st.rerun() that stops it: the set of ways it *)
(* can end.  w is the value the text input holds at the start of the run.  *)
(* The text input keeps its value from run to run while every run draws    *)
(* it; a run that ends, by reaching the end of the script, by return or by *)
(* st.rerun(), without having drawn it drops its value, and a run stopped  *)
(* by an exception drops nothing.                                          *)
main(s0, w, c0, trig, f) ==
    LET s == init_session_state(s0)
        c == IF c0.state = "unset" THEN load_resources(f) ELSE c0
    IN IF ~ResourcesLoaded(c) THEN {RunEnd(s, <<>>, c, "init_failed", FALSE)}
       ELSE IF f.stopwords # "ok" THEN {RunEnd(s, w, c, "exception", FALSE)}
       ELSE IF s.current_step = 1 THEN {InputSection(s, w, c, trig)}
       ELSE IF s.current_step = 2 THEN RecommendationSection(s, w, c, trig, f)
       ELSE {RunEnd(IF trig = "restart" THEN Restart(s) ELSE s, <<>>, c,
                    "blank", trig = "restart")}

(* A browser event: the run it triggers and, when that run calls           *)
(* st.rerun(), the run that follows at once.                               *)
Handle(trig, w) ==
    \E r1 \in main(session, w, cache, trig, files) :
      \E r2 \in (IF r1.rerun
                 THEN main(r1.session, r1.widget_text, r1.cache, "none", files)
                 ELSE {r1}) :
          /\ session' = r2.session
          /\ widget_text' = r2.widget_text
          /\ cache' = r2.cache
          /\ outcome' = r2.outcome
          /\ event' = trig
          /\ UNCHANGED << files, normVars, scoreVars >>

SessionKeywords == {<<>>, <<"a">>, <<" ">>, <<"a", " ", "a", "b">>}

InputShown == outcome \in {"input_page", "warning"}
RestartShown == outcome \in {"input_page", "warning", "results", "no_match", "blank"}

OpenPage == event = "none" /\ Handle("open", widget_text)

EditText == InputShown /\ \E t \in SessionKeywords \ {widget_text} : Handle("edit", t)

ClickSubmit == InputShown /\ Handle("submit", widget_text)

ClickRestart == RestartShown /\ Handle("restart", widget_text)

RerunScript == event # "none" /\ Handle("rerun", widget_text)

----------------------------------------------------------------------------
(* Specifications *)

NormUnused == n_pc = "in" /\ n_text = <<>> /\ n_once = <<>> /\ n_twice = <<>>
ScoreUnused == ScoreIdle /\ table = EmptyTable
SessionUnused ==
    /\ files = NoFiles
    /\ cache = Unloaded
    /\ session = NoSession
    /\ widget_text = <<>>
    /\ event = "none"
    /\ outcome = "none"

InitNorm == n_text \in Texts /\ NormIdle /\ ScoreUnused /\ SessionUnused
NextNorm == CallCleanText \/ CallCleanTextAgain
SpecNorm == InitNorm /\ [][NextNorm]_vars

InitScore == table \in Catalogs \cup NewTables /\ ScoreIdle /\ NormUnused /\ SessionUnused
NextScore == CallRecommendCourses \/ CallFinalRecommend \/ CallHandleColdStart \/ Discard
SpecScore == InitScore /\ [][NextScore]_vars

InitSession ==
    /\ files \in FileStates
    /\ cache = Unloaded
    /\ session = NoSession
    /\ widget_text = <<>>
    /\ event = "none"
    /\ outcome = "none"
    /\ NormUnused
    /\ ScoreUnused
NextSession == OpenPage \/ EditText \/ ClickSubmit \/ ClickRestart \/ RerunScript
SpecSession == InitSession /\ [][NextSession]_vars

----------------------------------------------------------------------------
(* What the last scoring call was, and the scores of the rows it was given *)

RankingCall == pc # "idle" /\ args.fn \in {"recommend_courses", "final_recommend"}
ColdStartCall == pc # "idle" /\ args.fn = "handle_cold_start"

QueryVector == Transform(clean_text(args.keywords))

(* The similarity and the composite score of every row of the table, as    *)
(* the last ranking call computed them.                                    *)
Similarities ==
    LET q == QueryVector
    IN [i \in 1..Len(table.rows) |->
           CosineSimilarity(q, Transform(table.rows[i]["cleaned_review"]))]
Scores ==
    LET sim == Similarities
    IN [i \in 1..Len(table.rows) |->
           CompositeScore(args.ws, sim[i], args.wr, FillNa(table.rows[i]["avg_rating"]))]

InResult(i) == \E p \in 1..Len(result) : result[p].idx = i

SortedDescending ==
    \A p, q \in 1..Len(result) :
        p < q => result[p].composite_score >= result[q].composite_score

NothingBetterLeftOut ==
    LET score == Scores
    IN \A i \in 1..Len(table.rows) :
           ~InResult(i) =>
               \A p \in 1..Len(result) : score[i] <= result[p].composite_score

(* C1: for every catalog of n rows and every positive top_n,               *)
(* recommend_courses returns exactly min(top_n, n) rows without error, in  *)
(* descending order of composite_score, and no row left out scores higher  *)
(* than a returned row.                                                    *)
C1_RankingLengthAndOrder ==
    (RankingCall /\ args.top_n > 0) =>
        /\ pc = "returned"
        /\ Len(result) = Min(args.top_n, Len(table.rows))
        /\ SortedDescending
        /\ NothingBetterLeftOut

(* The same for catalogs of at least one row, where the code does return. *)
RankingOfNonEmptyCatalog ==
    (RankingCall /\ args.top_n > 0 /\ Len(table.rows) > 0) =>
        /\ pc = "returned"
        /\ Len(result) = Min(args.top_n, Len(table.rows))
        /\ SortedDescending
        /\ NothingBetterLeftOut

(* C2: rows of equal composite_score appear in their original catalog      *)
(* order and the top_n cut keeps the earlier catalog row of a tie; so for  *)
(* an empty query the result is the catalog ordered by rating, ties in     *)
(* original order.                                                         *)
C2_StableTies ==
    (RankingCall /\ pc = "returned" /\ args.top_n > 0) =>
        LET score == Scores
        IN /\ \A p, q \in 1..Len(result) :
                 (p < q /\ result[p].composite_score = result[q].composite_score)
                     => result[p].idx < result[q].idx
           /\ \A i \in 1..Len(table.rows) : \A p \in 1..Len(result) :
                 (~InResult(i) /\ score[i] = result[p].composite_score)
                     => result[p].idx < i

(* C3: a call of recommend_courses or final_recommend with top_n <= 0 is   *)
(* rejected with an error naming top_n; it never returns a list.           *)
C3_NonPositiveTopNRejected ==
    (RankingCall /\ args.top_n <= 0) => (pc = "raised" /\ error = "top_n")

(* C4: composite_score = w_sim * similarity + w_rating * normalized_rating *)
(* with the rating scaled by the rating scale into [0,1], so every score   *)
(* lies in [0, w_sim + w_rating].                                          *)
C4_NormalizedRatingBlend ==
    (RankingCall /\ pc = "returned") =>
        LET sim == Similarities
        IN \A p \in 1..Len(result) :
               LET i == result[p].idx
                   c == result[p].composite_score
               IN /\ c * MaxRating =
                       args.ws * sim[i] * MaxRating
                       + args.wr * FillNa(table.rows[i]["avg_rating"]) * SimScale
                  /\ 0 <= c
                  /\ c <= (args.ws + args.wr) * SimScale

MissingRating(i) == table.rows[i]["avg_rating"] = NaN

(* C5: a row whose avg_rating is missing is scored with a rating term of 0 *)
(* (composite_score = w_sim * similarity); no error is raised and the row  *)
(* is in the result whenever fewer than top_n other rows score as high.    *)
C5_MissingRatingScoredZero ==
    (RankingCall /\ HasCol(table, "avg_rating")
       /\ \E i \in 1..Len(table.rows) : MissingRating(i)) =>
        LET sim == Similarities
            score == Scores
            AsGood(i) == {j \in 1..Len(table.rows) :
                             j # i /\ score[j] >= args.ws * sim[i]}
        IN /\ pc = "returned"
           /\ \A i \in 1..Len(table.rows) : MissingRating(i) =>
                 /\ \A p \in 1..Len(result) :
                       result[p].idx = i =>
                           result[p].composite_score = args.ws * sim[i]
                 /\ Cardinality(AsGood(i)) < args.top_n => InResult(i)

C5_Witness ==
    /\ RankingCall /\ pc = "returned" /\ args.top_n > 0
    /\ Len(result) < Len(table.rows)
    /\ \E p \in 1..Len(result) :
          /\ MissingRating(result[p].idx)
          /\ result[p].composite_score > 0

(* C6: every entry passed to handle_cold_start is scored with a rating     *)
(* term of 0 whatever avg_rating it carries: composite_score =             *)
(* similarity_weight * similarity, for any rating_weight; an entry with no *)
(* review text gets a finite score and no error.                           *)
C6_ColdStartRatingZero ==
    (ColdStartCall /\ Len(table.rows) > 0) =>
        LET q == QueryVector
        IN /\ pc = "returned"
           /\ Len(result) = Len(table.rows)
           /\ \A p \in 1..Len(result) :
                 /\ result[p].idx = p
                 /\ result[p].avg_rating = 0
                 /\ result[p].similarity \in 0..SimScale
                 /\ result[p].similarity =
                       CosineSimilarity(q,
                           Transform(clean_text(table.rows[p]["course_name"] \o <<" ">>
                                                \o table.rows[p]["teacher_name"])))
                 /\ result[p].composite_score = args.ws * result[p].similarity

C6_Witness ==
    /\ ColdStartCall /\ pc = "returned"
    /\ ~HasCol(table, "cleaned_review")
    /\ HasCol(table, "avg_rating")
    /\ args.wr > 0
    /\ \E p \in 1..Len(result) :
          /\ table.rows[p]["avg_rating"] = MaxRating
          /\ result[p].similarity > 0

ResourceFailure ==
    files.vocabulary # "ok" \/ files.corpus # "ok" \/ files.stopwords # "ok"

(* C7: when the vocabulary, the corpus table or the stopword file fails to *)
(* load or is malformed, no run produces a recommendation list, and a run  *)
(* that reaches the scoring step shows a failure (the initialisation error *)
(* or an exception), never the results nor the empty-result message.       *)
C7_ResourceFailureRefusesToScore ==
    (ResourceFailure /\ event # "none") =>
        /\ session.recommendations = <<>>
        /\ outcome \notin {"results", "no_match"}
        /\ session.current_step = 2 => outcome \in {"init_failed", "exception"}
        /\ (files.vocabulary # "ok" \/ files.corpus = "unreadable")
               => outcome = "init_failed"

C7_Witness ==
    /\ files.corpus = "no_rating"
    /\ session.current_step = 2
    /\ outcome = "exception"

(* C8: normalisation is idempotent: clean_text(clean_text(t)) =            *)
(* clean_text(t) for every text t.                                         *)
C8_CleanTextIdempotent == n_pc = "twice" => n_twice = n_once

(* C9: a scoring call leaves the table it was given as it was: the same    *)
(* columns and the same cell values.                                       *)
C9_CallsLeaveTableUnchanged == [][table' = table]_vars

(* C10: current_step is always 1 or 2; current_step = 2 implies non-empty  *)
(* user_keywords; and a restart always leads to current_step = 1 with      *)
(* empty user_keywords and empty recommendations.                          *)
C10_SessionFlow ==
    session.app_initialized =>
        /\ session.current_step \in {1, 2}
        /\ session.current_step = 2 => session.user_keywords # <<>>
        /\ event = "restart" =>
              /\ session.current_step = 1
              /\ session.user_keywords = <<>>
              /\ session.recommendations = <<>>

(* The parts of C10 that do hold, and the restart from step 2. *)
SessionStepInvariant ==
    session.app_initialized =>
        /\ session.current_step \in {1, 2}
        /\ session.current_step = 2 => session.user_keywords # <<>>
        /\ event = "restart" =>
              /\ session.current_step = 1
              /\ session.user_keywords = widget_text
              /\ session.recommendations = <<>>

====
